---- MODULE Spec2Model ----
(***************************************************************************)
(* The authorization endpoint of django-oidc-provider                      *)
(* (oidc_provider/lib/endpoints/authorize.py, lib/utils/token.py).         *)
(*                                                                         *)
(* Text that the code parses or builds (URIs, query strings, parameter     *)
(* values, tokens) is a sequence of one-character strings, so urlsplit,    *)
(* urlunsplit, parse_qs and urlencode are computed on characters.  The     *)
(* scheme "https" is written with the one letter "h" ("H" in upper case).  *)
(* response_type and the words of scope are only compared, and are plain   *)
(* strings.                                                                *)
(***************************************************************************)
EXTENDS Integers, Sequences, FiniteSets, TLC

VARIABLES
    request,            \* the query_dict of the HTTP request (GET or POST)
    settings,           \* the values settings.get() returns
    pc,                 \* "request", "init", "validated", "rejected", "responded"
    params,             \* self.params
    grant_type,         \* self.grant_type ("None" for None)
    is_authentication,  \* self.is_authentication
    client,             \* self.client (None before it is resolved)
    raised,             \* what validate_params raised (Returned: nothing)
    response,           \* what create_response_uri returned or raised
    codes,              \* the saved Code rows
    tokens,             \* the saved Token rows
    signed,             \* the payloads sign_compact has signed
    mint_fault,         \* what failed during create_response_uri ("none": nothing)
    now,                \* timezone.now(), in seconds
    consents,           \* the saved UserConsent rows
    created,            \* the local created of set_client_user_consent ("None" before)
    has_consent,        \* what client_has_user_consent returned ("None" before)
    workers,            \* two endpoint objects inside set_client_user_consent
    saved_by            \* the worker whose save() the store applied last (0: none)

\* the state of the consent operations
consentVars == <<consents, created, has_consent, workers, saved_by>>

vars == <<request, settings, pc, params, grant_type, is_authentication, client,
          raised, response, codes, tokens, signed, mint_fault, now, consentVars>>

----------------------------------------------------------------------------
(* Bounds of the model. *)

\* the largest number of name=value pieces in the query of a redirect_uri
MaxPairs == 2

\* the clock runs from 0 to MaxTime
MaxTime == 1

----------------------------------------------------------------------------
(* Characters and text. *)

EmptyStr == <<>>

\* the element of a one-element set; Only({e(x) : x \in {v}}) computes v once
Only(S) == CHOOSE x \in S : TRUE

\* the first position of s holding one of chars, 0 when there is none (str.find + 1)
Find(s, chars) ==
    IF \E i \in 1..Len(s) : s[i] \in chars
    THEN CHOOSE i \in 1..Len(s) : s[i] \in chars /\ \A j \in 1..(i-1) : s[j] \notin chars
    ELSE 0

\* str.lower() on the letters of the model
Lower(ch) == IF ch = "H" THEN "h" ELSE ch

\* the characters urlsplit accepts in a scheme
SchemeChars == {"h", "H"}

\* the schemes of urllib's uses_netloc that the model writes
UsesNetloc == {<<"h">>}

\* urlsplit(url): scheme (lowercased), netloc, path, query, fragment
urlsplit(url0) ==
    Only({
    LET i == Find(url, {":"})
        hasScheme == i > 1 /\ \A j \in 1..(i-1) : url[j] \in SchemeChars
        scheme == IF hasScheme THEN [j \in 1..(i-1) |-> Lower(url[j])] ELSE EmptyStr
        u1 == IF hasScheme THEN SubSeq(url, i+1, Len(url)) ELSE url
        hasNet == Len(u1) >= 2 /\ u1[1] = "/" /\ u1[2] = "/"
        rest == SubSeq(u1, 3, Len(u1))
        d == Find(rest, {"/", "?", "#"})
        netloc == IF ~hasNet THEN EmptyStr
                  ELSE IF d = 0 THEN rest ELSE SubSeq(rest, 1, d-1)
        u2 == IF ~hasNet THEN u1
              ELSE IF d = 0 THEN EmptyStr ELSE SubSeq(rest, d, Len(rest))
        f == Find(u2, {"#"})
        fragment == IF f = 0 THEN EmptyStr ELSE SubSeq(u2, f+1, Len(u2))
        u3 == IF f = 0 THEN u2 ELSE SubSeq(u2, 1, f-1)
        q == Find(u3, {"?"})
        query == IF q = 0 THEN EmptyStr ELSE SubSeq(u3, q+1, Len(u3))
        path == IF q = 0 THEN u3 ELSE SubSeq(u3, 1, q-1)
    IN [scheme |-> scheme, netloc |-> netloc, path |-> path,
        query |-> query, fragment |-> fragment]
    : url \in {url0} })

\* urlunsplit(parts): an empty query or fragment is written without its delimiter
urlunsplit(parts0) ==
    Only({
    LET withNet == parts.netloc # EmptyStr
                   \/ (parts.scheme # EmptyStr /\ parts.scheme \in UsesNetloc
                       /\ SubSeq(parts.path, 1, 2) # <<"/", "/">>)
        p1 == IF withNet /\ parts.path # EmptyStr /\ parts.path[1] # "/"
              THEN <<"/">> \o parts.path ELSE parts.path
        u1 == IF withNet THEN <<"/", "/">> \o parts.netloc \o p1 ELSE parts.path
        u2 == IF parts.scheme # EmptyStr THEN parts.scheme \o <<":">> \o u1 ELSE u1
        u3 == IF parts.query # EmptyStr THEN u2 \o <<"?">> \o parts.query ELSE u2
    IN IF parts.fragment # EmptyStr THEN u3 \o <<"#">> \o parts.fragment ELSE u3
    : parts \in {parts0} })

----------------------------------------------------------------------------
(* The registered clients (Client rows): client_id, response_type,         *)
(* redirect_uris.                                                          *)

uri_a_c == <<"h", ":", "/", "/", "a", "/", "c">>
uri_e_c == <<"h", ":", "/", "/", "e", "/", "c">>

Clients ==
    { [client_id |-> <<"A">>, response_type |-> "code",
       redirect_uris |-> {uri_a_c, uri_e_c}],
      [client_id |-> <<"B">>, response_type |-> "token",
       redirect_uris |-> {uri_a_c}],
      [client_id |-> <<"C">>, response_type |-> "id_token token",
       redirect_uris |-> {uri_a_c}],
      [client_id |-> <<"D">>, response_type |-> "id_token",
       redirect_uris |-> {uri_a_c}] }

\* Python's None, where the value is otherwise a record
None == [none |-> TRUE]

\* Client.objects.get(client_id=...); None stands for Client.DoesNotExist
ClientGet(client_id) ==
    IF \E c \in Clients : c.client_id = client_id
    THEN CHOOSE c \in Clients : c.client_id = client_id
    ELSE None

----------------------------------------------------------------------------
(* AuthorizeEndpoint.__init__ and _extract_params. *)

\* mutant: "token" is missing from the list of implicit response types
grant_type_of_without_token(response_type) ==
    IF response_type \in {"code"} THEN "authorization_code"
    ELSE IF response_type \in {"id_token", "id_token token"} THEN "implicit"
    ELSE "None"

\* the flow that __init__ determines from response_type
grant_type_of(response_type) ==
    IF response_type \in {"code"} THEN "authorization_code"
    ELSE IF response_type \in {"id_token", "id_token token", "token"} THEN "implicit"
    ELSE "None"

\* 'openid' in self.params.scope
is_authentication_of(scope) == \E i \in 1..Len(scope) : scope[i] = "openid"

\* _extract_params: the six parameters, each '' when absent; scope is the list of
\* the words of the scope parameter
extract_params(query_dict) ==
    [client_id |-> query_dict.client_id,
     redirect_uri |-> query_dict.redirect_uri,
     response_type |-> query_dict.response_type,
     scope |-> query_dict.scope,
     state |-> query_dict.state,
     nonce |-> query_dict.nonce]

----------------------------------------------------------------------------
(* AuthorizeEndpoint.validate_params. *)

ClientIdError == [exc |-> "ClientIdError"]
RedirectUriError == [exc |-> "RedirectUriError"]
AuthorizeError(redirect_uri, error, grant) ==
    [exc |-> "AuthorizeError", redirect_uri |-> redirect_uri, error |-> error,
     grant_type |-> grant]
Returned == [exc |-> "None"]

\* mutant: the query is not emptied before the URI is rebuilt
clean_redirect_uri_keeps_query(redirect_uri) == urlunsplit(urlsplit(redirect_uri))

\* the redirect_uri with its query emptied, as validate_params rebuilds it
clean_redirect_uri(redirect_uri) ==
    urlunsplit([urlsplit(redirect_uri) EXCEPT !.query = EmptyStr])

\* the redirect-URI check: is the rebuilt URI one of the client's redirect_uris
redirect_uri_registered(redirect_uri, cl) ==
    clean_redirect_uri(redirect_uri) \in cl.redirect_uris

\* mutant: the nonce is demanded of every implicit request
nonce_missing_any_request(p, gt, auth) == gt = "implicit" /\ p.nonce = EmptyStr

\* the nonce check
nonce_missing(p, gt, auth) == auth /\ gt = "implicit" /\ p.nonce = EmptyStr

\* mutant: the response_type is compared for every request
response_type_mismatch_always(p, auth, cl) == p.response_type # cl.response_type

\* the response_type check
response_type_mismatch(p, auth, cl) == auth /\ p.response_type # cl.response_type

\* mutant: the redirect-URI check is made right after the client is resolved
validate_params_raises_uri_first(p, gt, auth) ==
    LET cl == ClientGet(p.client_id) IN
    IF cl = None THEN ClientIdError
    ELSE IF auth /\ p.redirect_uri = EmptyStr THEN RedirectUriError
    ELSE IF ~redirect_uri_registered(p.redirect_uri, cl) THEN RedirectUriError
    ELSE IF gt = "None"
         THEN AuthorizeError(p.redirect_uri, "unsupported_response_type", gt)
    ELSE IF nonce_missing(p, gt, auth)
         THEN AuthorizeError(p.redirect_uri, "invalid_request", gt)
    ELSE IF response_type_mismatch(p, auth, cl)
         THEN AuthorizeError(p.redirect_uri, "invalid_request", gt)
    ELSE Returned

\* what validate_params raises for the endpoint's fields, Returned when it returns
validate_params_raises(p, gt, auth) ==
    LET cl == ClientGet(p.client_id) IN
    IF cl = None THEN ClientIdError
    ELSE IF auth /\ p.redirect_uri = EmptyStr THEN RedirectUriError
    ELSE IF gt = "None"
         THEN AuthorizeError(p.redirect_uri, "unsupported_response_type", gt)
    ELSE IF nonce_missing(p, gt, auth)
         THEN AuthorizeError(p.redirect_uri, "invalid_request", gt)
    ELSE IF response_type_mismatch(p, auth, cl)
         THEN AuthorizeError(p.redirect_uri, "invalid_request", gt)
    ELSE IF ~redirect_uri_registered(p.redirect_uri, cl) THEN RedirectUriError
    ELSE Returned

----------------------------------------------------------------------------
(* Query strings: parse_qs and urlencode.  A dict is the sequence of its      *)
(* entries [k, vs] in insertion order; vs is the list of values of a parsed   *)
(* name, or the one value the code assigned.                                  *)

RECURSIVE Split(_, _)
\* s.split(sep) for a one-character sep
Split(s0, sep) ==
    Only({ LET i == Find(s, {sep}) IN
           IF i = 0 THEN <<s>>
           ELSE <<SubSeq(s, 1, i-1)>> \o Split(SubSeq(s, i+1, Len(s)), sep)
           : s \in {s0} })

\* unquote after replacing "+" by a space (the text of the model holds no %-escape)
unquote_plus(s) == [i \in 1..Len(s) |-> IF s[i] = "+" THEN " " ELSE s[i]]

\* the characters quote_plus escapes, among those of the model
Escapes ==
    [c \in {"=", "&", "#", "?", "/", ":"} |->
        CASE c = "=" -> <<"%", "3", "D">>
          [] c = "&" -> <<"%", "2", "6">>
          [] c = "#" -> <<"%", "2", "3">>
          [] c = "?" -> <<"%", "3", "F">>
          [] c = "/" -> <<"%", "2", "F">>
          [] c = ":" -> <<"%", "3", "A">>]

RECURSIVE quote_plus(_)
quote_plus(s0) ==
    Only({ IF s = EmptyStr THEN EmptyStr
           ELSE (IF s[1] \in DOMAIN Escapes THEN Escapes[s[1]]
                 ELSE IF s[1] = " " THEN <<"+">> ELSE <<s[1]>>) \o quote_plus(Tail(s))
           : s \in {s0} })

\* d[k] = v
DictSet(d0, k, v) ==
    Only({ IF \E i \in 1..Len(d) : d[i].k = k
           THEN [i \in 1..Len(d) |-> IF d[i].k = k THEN [k |-> k, vs |-> <<v>>] ELSE d[i]]
           ELSE Append(d, [k |-> k, vs |-> <<v>>])
           : d \in {d0} })

\* d.setdefault(k, []).append(v), as parse_qs collects the values of a name
DictAdd(d0, k, v) ==
    Only({ IF \E i \in 1..Len(d) : d[i].k = k
           THEN [i \in 1..Len(d) |->
                    IF d[i].k = k THEN [k |-> k, vs |-> Append(d[i].vs, v)] ELSE d[i]]
           ELSE Append(d, [k |-> k, vs |-> <<v>>])
           : d \in {d0} })

RECURSIVE parse_pieces(_, _)
\* the loop of parse_qsl over the pieces: a piece without "=" or with a blank value
\* is skipped (keep_blank_values is off)
parse_pieces(pieces0, d0) ==
    Only({ IF pieces = <<>> THEN d
           ELSE LET nv == pieces[1]
                    e == Find(nv, {"="})
                    name == unquote_plus(SubSeq(nv, 1, e-1))
                    value == unquote_plus(SubSeq(nv, e+1, Len(nv)))
                IN IF nv = EmptyStr \/ e = 0 \/ e = Len(nv)
                   THEN parse_pieces(Tail(pieces), d)
                   ELSE parse_pieces(Tail(pieces), DictAdd(d, name, value))
           : pieces \in {pieces0}, d \in {d0} })

\* parse_qs(qs)
parse_qs(qs) == parse_pieces(Split(qs, "&"), <<>>)

RECURSIVE encode_entries(_)
\* the name=value texts urlencode(d, doseq=True) writes, in order
encode_entries(d0) ==
    Only({ IF d = <<>> THEN <<>>
           ELSE [i \in 1..Len(d[1].vs) |->
                     quote_plus(d[1].k) \o <<"=">> \o quote_plus(d[1].vs[i])]
                \o encode_entries(Tail(d))
           : d \in {d0} })

RECURSIVE Join(_, _)
\* sep.join(strs)
Join(strs0, sep) ==
    Only({ IF Len(strs) = 0 THEN EmptyStr
           ELSE IF Len(strs) = 1 THEN strs[1]
           ELSE strs[1] \o sep \o Join(Tail(strs), sep)
           : strs \in {strs0} })

\* urlencode(d, doseq=True)
urlencode(d) == Join(encode_entries(d), <<"&">>)

DigitChars == <<"0", "1", "2", "3", "4", "5", "6", "7", "8", "9">>

RECURSIVE IntToStr(_)
\* str(n) for n >= 0, as urlencode writes a number
IntToStr(n) ==
    IF n < 10 THEN <<DigitChars[n + 1]>>
    ELSE IntToStr(n \div 10) \o <<DigitChars[(n % 10) + 1]>>

----------------------------------------------------------------------------
(* lib/utils/token.py *)

\* request.user
TheUser == "alice"

\* the values uuid.uuid4().hex can take
Uuids == {<<"1">>, <<"2">>}

\* base64.urlsafe_b64encode(hashlib.sha256(hex).digest()[:16]): one text per input
at_hash_of(access_token) == <<"s">> \o access_token

\* create_id_token at time t: the claims (iss, sub and auth_time, which come from
\* the issuer setting and the user row, are left out); nonce only when given
create_id_token(user, aud, nonce, t, cfg) ==
    LET dic == [aud |-> aud, exp |-> t + cfg.OIDC_IDTOKEN_EXPIRE, iat |-> t]
    IN IF nonce # EmptyStr THEN ("nonce" :> nonce) @@ dic ELSE dic

\* a text claim of a payload, empty when the payload has none
Claim(payload, k) == IF k \in DOMAIN payload THEN payload[k] ELSE EmptyStr

\* encode_id_token(payload) when a key exists and signing succeeds: the compact
\* JWT, written here as its aud, nonce and at_hash claims after a header
encode_id_token(payload) ==
    <<"J", ".">> \o Claim(payload, "aud") \o <<".">> \o Claim(payload, "nonce")
                \o <<".">> \o Claim(payload, "at_hash")

\* mutant: at_hash is the digest of the second uuid4 value, the refresh token
create_token_at_hash_of_refresh_token(user, cl, id_token_dic, scope, t, a, r, cfg) ==
    LET dic == ("at_hash" :> at_hash_of(r)) @@ id_token_dic IN
    [user |-> user, client |-> cl.client_id, access_token |-> a,
     id_token |-> dic, at_hash |-> dic["at_hash"], refresh_token |-> r,
     expires_at |-> t + cfg.OIDC_TOKEN_EXPIRE, scope |-> scope]

\* create_token at time t with uuid4 values a and r.  id_token_dic is the caller's
\* dict: at_hash is written into it, and token.id_token is that dict
create_token(user, cl, id_token_dic, scope, t, a, r, cfg) ==
    LET dic == ("at_hash" :> at_hash_of(a)) @@ id_token_dic IN
    [user |-> user, client |-> cl.client_id, access_token |-> a,
     id_token |-> dic, at_hash |-> dic["at_hash"], refresh_token |-> r,
     expires_at |-> t + cfg.OIDC_TOKEN_EXPIRE, scope |-> scope]

\* create_code at time t with uuid4 value u
create_code(user, cl, scope, nonce, auth, t, u, cfg) ==
    [user |-> user, client |-> cl.client_id, code |-> u,
     expires_at |-> t + cfg.OIDC_CODE_EXPIRE, scope |-> scope, nonce |-> nonce,
     is_authentication |-> auth]

----------------------------------------------------------------------------
(* AuthorizeEndpoint.create_response_uri. *)

K_code == <<"c", "o", "d", "e">>
K_state == <<"s", "t", "a", "t", "e">>
K_id_token == <<"i", "d", "_", "t", "o", "k", "e", "n">>
K_token_type == <<"t", "o", "k", "e", "n", "_", "t", "y", "p", "e">>
K_expires_in == <<"e", "x", "p", "i", "r", "e", "s", "_", "i", "n">>
K_access_token == <<"a", "c", "c", "e", "s", "s", "_", "t", "o", "k", "e", "n">>
V_bearer == <<"b", "e", "a", "r", "e", "r">>

\* the literal 60 * 10 written to expires_in
ExpiresInLiteral == 600

\* what can go wrong while minting: nothing, save() raises, sign_compact raises,
\* RSAKey.objects.all() is empty
Faults == {"none", "save", "sign", "nokey"}

\* mutant: a missing key is not noticed, the token goes out unsigned
EncodeRaises_ignores_missing_key(fault) == fault \in {"sign"}

\* encode_id_token raises
EncodeRaises(fault) == fault \in {"sign", "nokey"}

\* the except clause: every exception becomes this AuthorizeError
ServerError(p, gt) == AuthorizeError(p.redirect_uri, "server_error", gt)

\* the value returned: the redirect_uri with the two dicts written back
ResponseUri(uri, query_params, query_fragment) ==
    [uri |-> urlunsplit([uri EXCEPT !.query = urlencode(query_params),
                                    !.fragment = urlencode(query_fragment)])]

(* The body of the try block works on m: the two dicts, the stores, the local  *)
(* id_token_dic and token, and whether an exception has been raised.          *)

\* the authorization_code branch: create_code, save, code and state to the query
code_branch(p, auth, cl, cfg, t, u, fault, m0) ==
    Only({ IF fault = "save" THEN [m EXCEPT !.raised = TRUE]
           ELSE [m EXCEPT
                   !.codes = Append(m.codes,
                                    create_code(TheUser, cl, p.scope, p.nonce, auth, t, u, cfg)),
                   !.query_params = DictSet(DictSet(m.query_params, K_code, u),
                                            K_state, p.state)]
           : m \in {m0} })

\* mutant: the id_token is built only when the response_type asks for one
implicit_id_token_if_requested(p, auth, cl, cfg, t, fault, m0) ==
    Only({ IF ~(auth /\ p.response_type # "token") THEN [m EXCEPT !.id_token_dic = <<>>]
           ELSE IF EncodeRaises(fault) THEN [m EXCEPT !.raised = TRUE]
           ELSE [m EXCEPT
                   !.id_token_dic = dic,
                   !.signed = Append(m.signed, dic),
                   !.query_fragment = DictSet(m.query_fragment, K_id_token,
                                              encode_id_token(dic))]
           : m \in {m0},
             dic \in {create_id_token(TheUser, cl.client_id, p.nonce, t, cfg)} })

\* the implicit branch up to create_token: the id_token of an authentication
\* request is built, signed and written to the fragment
implicit_id_token(p, auth, cl, cfg, t, fault, m0) ==
    Only({ IF ~auth THEN [m EXCEPT !.id_token_dic = <<>>]
           ELSE IF EncodeRaises(fault) THEN [m EXCEPT !.raised = TRUE]
           ELSE [m EXCEPT
                   !.id_token_dic = dic,
                   !.signed = Append(m.signed, dic),
                   !.query_fragment = DictSet(m.query_fragment, K_id_token,
                                              encode_id_token(dic))]
           : m \in {m0},
             dic \in {create_id_token(TheUser, cl.client_id, p.nonce, t, cfg)} })

\* create_token and token.save(); the token holds the caller's id_token_dic
implicit_token(p, cl, cfg, t, a, r, fault, m0) ==
    Only({ IF m.raised THEN m
           ELSE IF fault = "save"
           THEN [m EXCEPT !.raised = TRUE, !.id_token_dic = token.id_token]
           ELSE [m EXCEPT !.id_token_dic = token.id_token,
                          !.token = token,
                          !.tokens = Append(m.tokens, token)]
           : m \in {m0},
             token \in {create_token(TheUser, cl, m0.id_token_dic, p.scope, t, a, r, cfg)} })

\* mutant: the access_token is written to the fragment for every response_type
implicit_fragment_always_access_token(p, fault, m0) ==
    Only({ IF m.raised THEN m
           ELSE IF p.response_type = "id_token token" /\ EncodeRaises(fault)
           THEN [m EXCEPT !.raised = TRUE]
           ELSE [m EXCEPT
                   !.signed = IF p.response_type = "id_token token"
                              THEN Append(m.signed, dic) ELSE m.signed,
                   !.query_fragment =
                       DictSet(
                         IF p.response_type = "id_token token"
                         THEN DictSet(f, K_id_token, encode_id_token(dic)) ELSE f,
                         K_state, p.state)]
           : m \in {m0},
             dic \in {IF m0.raised THEN <<>>
                      ELSE ("at_hash" :> m0.token.at_hash) @@ m0.id_token_dic},
             f \in {IF m0.raised THEN <<>>
                    ELSE DictSet(DictSet(DictSet(m0.query_fragment, K_token_type, V_bearer),
                                         K_expires_in, IntToStr(ExpiresInLiteral)),
                                 K_access_token, m0.token.access_token)} })

\* the rest of the implicit branch: token_type, expires_in, access_token, the
\* id_token signed again with at_hash for "id_token token", state
implicit_fragment(p, fault, m0) ==
    Only({ IF m.raised THEN m
           ELSE IF p.response_type = "id_token token" /\ EncodeRaises(fault)
           THEN [m EXCEPT !.raised = TRUE]
           ELSE [m EXCEPT
                   !.signed = IF p.response_type = "id_token token"
                              THEN Append(m.signed, dic) ELSE m.signed,
                   !.query_fragment =
                       DictSet(
                         IF p.response_type = "id_token token"
                         THEN DictSet(f, K_id_token, encode_id_token(dic)) ELSE f,
                         K_state, p.state)]
           : m \in {m0},
             dic \in {IF m0.raised THEN <<>>
                      ELSE ("at_hash" :> m0.token.at_hash) @@ m0.id_token_dic},
             f \in {IF m0.raised THEN <<>>
                    ELSE IF p.response_type \in {"id_token token", "token"}
                    THEN DictSet(DictSet(DictSet(m0.query_fragment, K_token_type, V_bearer),
                                         K_expires_in, IntToStr(ExpiresInLiteral)),
                                 K_access_token, m0.token.access_token)
                    ELSE DictSet(DictSet(m0.query_fragment, K_token_type, V_bearer),
                                 K_expires_in, IntToStr(ExpiresInLiteral))} })

\* the try block of create_response_uri
mint(p, gt, auth, cl, cfg, t, a, r, fault, m) ==
    IF gt = "authorization_code" THEN code_branch(p, auth, cl, cfg, t, a, fault, m)
    ELSE IF gt = "implicit"
    THEN implicit_fragment(p, fault,
             implicit_token(p, cl, cfg, t, a, r, fault,
                 implicit_id_token(p, auth, cl, cfg, t, fault, m)))
    ELSE m

----------------------------------------------------------------------------
(* AuthorizeEndpoint.set_client_user_consent and client_has_user_consent.     *)
(* The UserConsent table is the sequence of its rows; the position of a row   *)
(* is its primary key.  A model object (uc) is a copy of a row with its pk.   *)

\* the seconds of timedelta(days=1)
SecondsPerDay == 86400

\* a UserConsent row: user, client, scope and expires_at
UserConsentRow(user, client_id, scope, expires_at) ==
    [user |-> user, client |-> client_id, scope |-> scope, expires_at |-> expires_at]

\* the primary keys of the rows of (user, client)
ConsentPks(store, user, cl) ==
    {i \in 1..Len(store) : store[i].user = user /\ store[i].client = cl.client_id}

\* UserConsent.has_expired() at time t: the expiry is not strictly in the future
has_expired(uc, t) == ~(uc.expires_at > t)

\* timezone.now() + timedelta(days=settings.get('OIDC_SKIP_CONSENT_EXPIRE'))
consent_expires_at(t, cfg) == t + cfg.OIDC_SKIP_CONSENT_EXPIRE * SecondsPerDay

\* mutant: a row is created without looking for an existing one
get_or_create_always_creates(store0, user, cl, defaults) ==
    Only({ [store |-> Append(store, UserConsentRow(user, cl.client_id, <<>>,
                                                   defaults.expires_at)),
            pk |-> Len(store) + 1, created |-> TRUE, raised |-> FALSE]
           : store \in {store0} })

\* UserConsent.objects.get_or_create(user=, client=, defaults=): one atomic step of
\* the store.  The row of the pair is fetched, or created with the defaults (scope
\* is then the empty default of the field); more than one row raises
\* MultipleObjectsReturned
get_or_create(store0, user, cl, defaults) ==
    Only({ IF pks = {}
           THEN [store |-> Append(store, UserConsentRow(user, cl.client_id, <<>>,
                                                        defaults.expires_at)),
                 pk |-> Len(store) + 1, created |-> TRUE, raised |-> FALSE]
           ELSE IF Cardinality(pks) = 1
           THEN [store |-> store, pk |-> Only(pks), created |-> FALSE, raised |-> FALSE]
           ELSE [store |-> store, pk |-> 0, created |-> FALSE, raised |-> TRUE]
           : store \in {store0}, pks \in {ConsentPks(store0, user, cl)} })

\* the model object of the row pk
ConsentObject(store, pk) ==
    [pk |-> pk, user |-> store[pk].user, client |-> store[pk].client,
     scope |-> store[pk].scope, expires_at |-> store[pk].expires_at]

\* mutant: the scope of the grant is added to the scope already stored
consent_assign_union(uc, isnew, scope, expires_at) ==
    [uc EXCEPT !.scope = uc.scope \o scope,
               !.expires_at = IF ~isnew THEN expires_at ELSE uc.expires_at]

\* uc.scope = self.params.scope, and expires_at rewritten when the row existed
consent_assign(uc, isnew, scope, expires_at) ==
    [uc EXCEPT !.scope = scope,
               !.expires_at = IF ~isnew THEN expires_at ELSE uc.expires_at]

\* mutant: save writes the scope alone, as save(update_fields=['scope']) would
consent_save_scope_only(store, uc) ==
    [store EXCEPT ![uc.pk] = UserConsentRow(uc.user, uc.client, uc.scope,
                                            store[uc.pk].expires_at)]

\* uc.save(): one atomic step of the store, every field of the object is written
\* to its row
consent_save(store, uc) ==
    [store EXCEPT ![uc.pk] = UserConsentRow(uc.user, uc.client, uc.scope, uc.expires_at)]

\* set_client_user_consent as one call at time t: the store it leaves and the
\* locals created and raised
set_client_user_consent_call(store, user, cl, scope, t, cfg) ==
    Only({ IF g.raised THEN [store |-> store, created |-> FALSE, raised |-> TRUE]
           ELSE [store |-> consent_save(g.store,
                              consent_assign(ConsentObject(g.store, g.pk), g.created,
                                             scope, expires_at)),
                 created |-> g.created, raised |-> FALSE]
           : expires_at \in {consent_expires_at(t, cfg)},
             g \in {get_or_create(store, user, cl,
                                  [expires_at |-> consent_expires_at(t, cfg)])} })

\* set(a).issubset(b) for two lists
issubset(a, b) == {a[i] : i \in 1..Len(a)} \subseteq {b[i] : i \in 1..Len(b)}

\* mutant: the expiry of the row is not looked at
client_has_user_consent_call_ignores_expiry(store, user, cl, scope, t) ==
    LET pks == ConsentPks(store, user, cl) IN
    IF pks = {} THEN "False"
    ELSE IF Cardinality(pks) > 1 THEN "MultipleObjectsReturned"
    ELSE IF issubset(scope, store[Only(pks)].scope) THEN "True" ELSE "False"

\* client_has_user_consent at time t: what it returns, or the exception of
\* UserConsent.objects.get that it does not catch
client_has_user_consent_call(store, user, cl, scope, t) ==
    LET pks == ConsentPks(store, user, cl) IN
    IF pks = {} THEN "False"
    ELSE IF Cardinality(pks) > 1 THEN "MultipleObjectsReturned"
    ELSE IF issubset(scope, store[Only(pks)].scope) /\ ~has_expired(store[Only(pks)], t)
         THEN "True" ELSE "False"

----------------------------------------------------------------------------
(* The requests and settings the runs start from. *)

SeqsUpTo(S, n) == UNION {[1..k -> S] : k \in 0..n}

NoNonce == EmptyStr
SomeNonce == <<"n">>
NoState == EmptyStr
SomeState == <<"x">>

ResponseTypes == {"code", "id_token", "id_token token", "token", "", "code token"}

\* redirect_uri values of every shape: scheme, host, path, query and fragment vary
UriShapes ==
    { sch \o <<":", "/", "/">> \o host \o path \o q \o f :
        sch \in {<<"h">>, <<"H">>}, host \in {<<"a">>, <<"e">>},
        path \in {<<"/", "c">>, <<"/", "c", "/">>},
        q \in {EmptyStr, <<"?">>, <<"?", "k", "=", "v">>},
        f \in {EmptyStr, <<"#">>, <<"#", "k", "=", "v">>} }
    \cup {EmptyStr, <<"/", "/", "a", "/", "c">>, <<"h", ":", "/", "c">>}

\* the name=value pieces of a query: a value, another value, a blank value
Pieces == {<<"k", "=", "v">>, <<"k", "=", "w">>, <<"k", "=">>}

\* a registered URI followed by a query of up to MaxPairs pieces
UrisWithQuery ==
    { uri_a_c \o q \o f :
        q \in {EmptyStr} \cup {<<"?">> \o Join(ps, <<"&">>) : ps \in SeqsUpTo(Pieces, MaxPairs)},
        f \in {EmptyStr, <<"#">>} }

DefaultSettings ==
    [OIDC_CODE_EXPIRE |-> 600, OIDC_IDTOKEN_EXPIRE |-> 600,
     OIDC_TOKEN_EXPIRE |-> 3600, OIDC_SKIP_CONSENT_EXPIRE |-> 90]

SettingsChoices ==
    {DefaultSettings, [DefaultSettings EXCEPT !.OIDC_TOKEN_EXPIRE = 600]}

\* requests that exercise validate_params
ValidationRequests ==
    [client_id : {EmptyStr, <<"A">>, <<"C">>},
     redirect_uri : UriShapes,
     response_type : ResponseTypes,
     scope : {<<>>, <<"openid">>, <<"profile">>, <<"profile", "openid">>},
     state : {NoState},
     nonce : {NoNonce, SomeNonce}]

\* requests that go on to create_response_uri
MintRequests ==
    { [client_id |-> c.client_id, redirect_uri |-> u, response_type |-> c.response_type,
       scope |-> sc, state |-> st, nonce |-> SomeNonce] :
        c \in Clients, u \in UrisWithQuery, sc \in {<<>>, <<"openid">>},
        st \in {NoState, SomeState} }
    \cup
    { [client_id |-> <<"A">>, redirect_uri |-> u, response_type |-> rt,
       scope |-> <<"profile">>, state |-> st, nonce |-> NoNonce] :
        rt \in {"code", "id_token", "id_token token", "token"}, u \in UrisWithQuery,
        st \in {NoState, SomeState} }

\* the two workers of a concurrent grant
Workers == {1, 2}

\* a worker before it enters set_client_user_consent: its params.scope, its locals
\* expires_at, uc and created
IdleWorker(scope) ==
    [pc |-> "idle", scope |-> scope, expires_at |-> 0, uc |-> None, created |-> FALSE]

NoWorkers == [w \in Workers |-> IdleWorker(<<>>)]

Scenarios ==
    { [request |-> r, settings |-> DefaultSettings] : r \in ValidationRequests }
    \cup { [request |-> r, settings |-> s] : r \in MintRequests, s \in SettingsChoices }

----------------------------------------------------------------------------
(* The state machine: one endpoint object from construction to response. *)

Init ==
    /\ \E sc \in Scenarios : request = sc.request /\ settings = sc.settings
    /\ pc = "request"
    /\ params = None
    /\ grant_type = "None"
    /\ is_authentication = FALSE
    /\ client = None
    /\ raised = Returned
    /\ response = None
    /\ codes = <<>>
    /\ tokens = <<>>
    /\ signed = <<>>
    /\ mint_fault = "none"
    /\ now = 0
    /\ consents = <<>>
    /\ created = "None"
    /\ has_consent = "None"
    /\ workers = NoWorkers
    /\ saved_by = 0

\* AuthorizeEndpoint.__init__
AuthorizeEndpoint_init ==
    /\ pc = "request"
    /\ params' = extract_params(request)
    /\ grant_type' = grant_type_of(params'.response_type)
    /\ is_authentication' = is_authentication_of(params'.scope)
    /\ pc' = "init"
    /\ UNCHANGED <<request, settings, client, raised, response, codes, tokens,
                   signed, mint_fault, now, consentVars>>

\* AuthorizeEndpoint.validate_params
validate_params ==
    /\ pc = "init"
    /\ raised' = validate_params_raises(params, grant_type, is_authentication)
    /\ client' = ClientGet(params.client_id)
    /\ pc' = IF raised' = Returned THEN "validated" ELSE "rejected"
    /\ UNCHANGED <<request, settings, params, grant_type, is_authentication,
                   response, codes, tokens, signed, mint_fault, now, consentVars>>

\* AuthorizeEndpoint.create_response_uri, called at time t; a and r are the values
\* uuid4 gives, fault is what fails during the call
create_response_uri ==
    /\ pc = "validated"
    /\ \E t \in now..MaxTime, a \in Uuids, r \in Uuids, fault \in Faults :
       \E uri \in {urlsplit(params.redirect_uri)} :
       \E m \in {mint(params, grant_type, is_authentication, client, settings,
                      t, a, r, fault,
                      [query_params |-> parse_qs(uri.query),
                       query_fragment |-> parse_qs(uri.fragment),
                       codes |-> codes, tokens |-> tokens, signed |-> signed,
                       id_token_dic |-> <<>>, token |-> None, raised |-> FALSE])} :
            /\ response' = IF m.raised THEN ServerError(params, grant_type)
                           ELSE ResponseUri(uri, m.query_params, m.query_fragment)
            /\ codes' = m.codes
            /\ tokens' = m.tokens
            /\ signed' = m.signed
            /\ mint_fault' = fault
            /\ now' = t
    /\ pc' = "responded"
    /\ UNCHANGED <<request, settings, params, grant_type, is_authentication,
                   client, raised, consentVars>>

Next ==
    \/ AuthorizeEndpoint_init
    \/ validate_params
    \/ create_response_uri

Spec == Init /\ [][Next]_vars

----------------------------------------------------------------------------
(* The consent operations over a series of requests, one endpoint object at  *)
(* a time.  The clock is read in whole days, between requests.               *)

\* the clock of the consent runs goes from day 0 to day MaxDays
MaxDays == 2

ConsentScopes ==
    {<<>>, <<"openid">>, <<"openid", "profile">>, <<"openid", "email">>}

\* valid requests of the clients A and B for the scopes
ConsentRequests ==
    { [client_id |-> c.client_id, redirect_uri |-> uri_a_c,
       response_type |-> c.response_type, scope |-> sc, state |-> NoState,
       nonce |-> SomeNonce] :
        c \in {d \in Clients : d.client_id \in {<<"A">>, <<"B">>}}, sc \in ConsentScopes }

\* a consent lifetime of one day or of two
ConsentSettings ==
    {[DefaultSettings EXCEPT !.OIDC_SKIP_CONSENT_EXPIRE = d] : d \in {1, 2}}

ConsentInit ==
    /\ request \in ConsentRequests
    /\ settings \in ConsentSettings
    /\ pc = "request"
    /\ params = None
    /\ grant_type = "None"
    /\ is_authentication = FALSE
    /\ client = None
    /\ raised = Returned
    /\ response = None
    /\ codes = <<>>
    /\ tokens = <<>>
    /\ signed = <<>>
    /\ mint_fault = "none"
    /\ now = 0
    /\ consents = <<>>
    /\ created = "None"
    /\ has_consent = "None"
    /\ workers = NoWorkers
    /\ saved_by = 0

\* AuthorizeEndpoint.set_client_user_consent, called at time now
set_client_user_consent ==
    /\ pc \in {"validated", "checked", "granted"}
    /\ \E r \in {set_client_user_consent_call(consents, TheUser, client, params.scope,
                                              now, settings)} :
            /\ consents' = r.store
            /\ created' = IF r.raised THEN "None" ELSE IF r.created THEN "True" ELSE "False"
            /\ pc' = IF r.raised THEN "raised" ELSE "granted"
    /\ UNCHANGED <<request, settings, params, grant_type, is_authentication, client,
                   raised, response, codes, tokens, signed, mint_fault, now, has_consent,
                   workers, saved_by>>

\* AuthorizeEndpoint.client_has_user_consent, called at time now
client_has_user_consent ==
    /\ pc \in {"validated", "checked", "granted"}
    /\ has_consent' = client_has_user_consent_call(consents, TheUser, client,
                                                   params.scope, now)
    /\ pc' = IF has_consent' \in {"True", "False"} THEN "checked" ELSE "raised"
    /\ UNCHANGED <<request, settings, params, grant_type, is_authentication, client,
                   raised, response, codes, tokens, signed, mint_fault, now, consents, created,
                   workers, saved_by>>

\* the next request arrives: a new endpoint object, the stores are kept
NextRequest ==
    /\ pc \in {"validated", "checked", "granted", "rejected", "raised"}
    /\ request' \in ConsentRequests
    /\ pc' = "request"
    /\ params' = None
    /\ grant_type' = "None"
    /\ is_authentication' = FALSE
    /\ client' = None
    /\ raised' = Returned
    /\ created' = "None"
    /\ has_consent' = "None"
    /\ UNCHANGED <<settings, response, codes, tokens, signed, mint_fault, now, consents,
                   workers, saved_by>>

\* a day passes before the request is handled
Tick ==
    /\ pc = "request"
    /\ now < MaxDays * SecondsPerDay
    /\ now' = now + SecondsPerDay
    /\ UNCHANGED <<request, settings, pc, params, grant_type, is_authentication,
                   client, raised, response, codes, tokens, signed, mint_fault, consentVars>>

ConsentNext ==
    \/ AuthorizeEndpoint_init
    \/ validate_params
    \/ set_client_user_consent
    \/ client_has_user_consent
    \/ NextRequest
    \/ Tick

ConsentSpec == ConsentInit /\ [][ConsentNext]_vars

----------------------------------------------------------------------------
(* Two workers run set_client_user_consent for the same user and client at   *)
(* the same time.  Each has its own endpoint object (its scope and locals);  *)
(* get_or_create and save are atomic steps of the store.                     *)

\* the row an earlier grant of scope openid at day 0 has left
EarlierRow(cfg) ==
    UserConsentRow(TheUser, <<"A">>, <<"openid">>, consent_expires_at(0, cfg))

ConcurrentInit ==
    /\ request = None
    /\ settings \in ConsentSettings
    /\ pc = "workers"
    /\ params = None
    /\ grant_type = "None"
    /\ is_authentication = FALSE
    /\ client = ClientGet(<<"A">>)
    /\ raised = Returned
    /\ response = None
    /\ codes = <<>>
    /\ tokens = <<>>
    /\ signed = <<>>
    /\ mint_fault = "none"
    /\ now = 0
    /\ consents \in {<<>>, <<EarlierRow(settings)>>}
    /\ created = "None"
    /\ has_consent = "None"
    /\ workers \in [Workers -> {IdleWorker(sc) : sc \in ConsentScopes}]
    /\ saved_by = 0

\* line 164: the worker reads the clock and computes expires_at
worker_expires_at(w) ==
    /\ workers[w].pc = "idle"
    /\ workers' = [workers EXCEPT ![w].pc = "expires",
                                  ![w].expires_at = consent_expires_at(now, settings)]
    /\ UNCHANGED <<request, settings, pc, params, grant_type, is_authentication,
                   client, raised, response, codes, tokens, signed, mint_fault, now, consents,
                   created, has_consent, saved_by>>

\* lines 167-170: get_or_create, an atomic step of the store
worker_get_or_create(w) ==
    /\ workers[w].pc = "expires"
    /\ \E g \in {get_or_create(consents, TheUser, client,
                               [expires_at |-> workers[w].expires_at])} :
            /\ consents' = g.store
            /\ workers' = [workers EXCEPT
                             ![w].pc = IF g.raised THEN "raised" ELSE "got",
                             ![w].uc = IF g.raised THEN None
                                       ELSE ConsentObject(g.store, g.pk),
                             ![w].created = g.created]
    /\ UNCHANGED <<request, settings, pc, params, grant_type, is_authentication,
                   client, raised, response, codes, tokens, signed, mint_fault, now, created,
                   has_consent, saved_by>>

\* lines 171-177: the assignments to the object and save(), an atomic step of the
\* store
worker_save(w) ==
    /\ workers[w].pc = "got"
    /\ \E uc \in {consent_assign(workers[w].uc, workers[w].created, workers[w].scope,
                                 workers[w].expires_at)} :
            /\ consents' = consent_save(consents, uc)
            /\ workers' = [workers EXCEPT ![w].pc = "done", ![w].uc = uc]
    /\ saved_by' = w
    /\ UNCHANGED <<request, settings, pc, params, grant_type, is_authentication,
                   client, raised, response, codes, tokens, signed, mint_fault, now, created,
                   has_consent>>

\* a day passes while the workers run
WorkersTick ==
    /\ \E w \in Workers : workers[w].pc # "done"
    /\ now < MaxDays * SecondsPerDay
    /\ now' = now + SecondsPerDay
    /\ UNCHANGED <<request, settings, pc, params, grant_type, is_authentication,
                   client, raised, response, codes, tokens, signed, mint_fault, consentVars>>

ConcurrentNext ==
    \/ \E w \in Workers : worker_expires_at(w)
    \/ \E w \in Workers : worker_get_or_create(w)
    \/ \E w \in Workers : worker_save(w)
    \/ WorkersTick

ConcurrentSpec == ConcurrentInit /\ [][ConcurrentNext]_vars

----------------------------------------------------------------------------
(* What the claims speak of, stated on the request itself. *)

\* a URI with only its query component removed: the text from the first "?" before
\* any "#" up to that "#" (or the end) is cut out, nothing else is touched
StripQuery(uri) ==
    LET h == Find(uri, {"#"})
        head == IF h = 0 THEN uri ELSE SubSeq(uri, 1, h-1)
        frag == IF h = 0 THEN EmptyStr ELSE SubSeq(uri, h, Len(uri))
        q == Find(head, {"?"})
    IN (IF q = 0 THEN head ELSE SubSeq(head, 1, q-1)) \o frag

\* a URI with its query component removed, the letters of its scheme lowercased and
\* a "#" that ends it with an empty fragment dropped
Normalize(uri) ==
    LET s == StripQuery(uri)
        c == Find(s, {":"})
        low == [j \in 1..Len(s) |-> IF j < c THEN Lower(s[j]) ELSE s[j]]
    IN IF Len(low) > 0 /\ Find(low, {"#"}) = Len(low)
       THEN SubSeq(low, 1, Len(low) - 1) ELSE low

Validated == pc \in {"validated", "rejected", "responded"}

ReqOpenid == "openid" \in {request.scope[i] : i \in 1..Len(request.scope)}
ReqImplicit == request.response_type \in {"id_token", "id_token token", "token"}
ReqSupported == request.response_type = "code" \/ ReqImplicit
ReqClientKnown == \E c \in Clients : c.client_id = request.client_id
ReqRegisteredUris ==
    UNION {c.redirect_uris : c \in {d \in Clients : d.client_id = request.client_id}}
ReqRegisteredTypes ==
    {c.response_type : c \in {d \in Clients : d.client_id = request.client_id}}
ReqUriTrusted == Normalize(request.redirect_uri) \in ReqRegisteredUris
ReqUriExact == StripQuery(request.redirect_uri) \in ReqRegisteredUris

\* the checks of validate_params that come before the redirect-URI check all pass
ReqReachesUriCheck ==
    /\ ReqClientKnown
    /\ ~(ReqOpenid /\ request.redirect_uri = EmptyStr)
    /\ ReqSupported
    /\ ~(ReqOpenid /\ ReqImplicit /\ request.nonce = EmptyStr)
    /\ ~(ReqOpenid /\ request.response_type \notin ReqRegisteredTypes)

\* create_response_uri has returned a URI
Responded == pc = "responded" /\ "uri" \in DOMAIN response

\* the text of a URI after its first "#"
FragmentOf(uri) ==
    LET h == Find(uri, {"#"}) IN
    IF h = 0 THEN EmptyStr ELSE SubSeq(uri, h+1, Len(uri))

\* the text of a URI between its first "?" and its fragment
QueryOf(uri) ==
    LET h == Find(uri, {"#"})
        head == IF h = 0 THEN uri ELSE SubSeq(uri, 1, h-1)
        q == Find(head, {"?"})
    IN IF q = 0 THEN EmptyStr ELSE SubSeq(head, q+1, Len(head))

\* the name of a name=value piece
NameOf(piece) ==
    LET e == Find(piece, {"="}) IN
    IF e = 0 THEN piece ELSE SubSeq(piece, 1, e-1)

\* the names of the pieces of a query or fragment text
Names(text) ==
    LET ps == Split(text, "&") IN
    {NameOf(ps[i]) : i \in {j \in 1..Len(ps) : ps[j] # EmptyStr}}

\* the values a name has in a query or fragment text
Values(text, name) ==
    LET ps == Split(text, "&") IN
    { SubSeq(ps[i], Len(name) + 2, Len(ps[i])) :
        i \in {j \in 1..Len(ps) : ps[j] # EmptyStr /\ NameOf(ps[j]) = name} }

ResultKeys == {K_id_token, K_access_token, K_token_type, K_expires_in, K_state}

\* the kind of an outcome of validate_params: the exception and its error code
ErrKind(r) == <<r.exc, IF r.exc = "AuthorizeError" THEN r.error ELSE "">>

----------------------------------------------------------------------------
(* The claims. *)

\* C1: an error of validate_params that is reported via redirect
\* (unsupported_response_type, invalid_request) carries a redirect_uri that matches
\* one of the client's registered URIs; for a request whose redirect_uri matches no
\* registered URI only ClientIdError or RedirectUriError is raised.
C1_RedirectedErrorsCarryTrustedUri ==
    Validated =>
        /\ raised.exc = "AuthorizeError" =>
              Normalize(raised.redirect_uri) \in ReqRegisteredUris
        /\ (~ReqUriTrusted /\ raised # Returned)
              => raised.exc \in {"ClientIdError", "RedirectUriError"}

\* C2: the outcome of validate_params is the error of the first failing check in
\* the order client, missing redirect_uri, grant, nonce, response_type,
\* redirect_uri; it returns iff no check fails.
C2_FirstFailingCheckWins ==
    Validated =>
        LET fails == << ~ReqClientKnown,
                        ReqOpenid /\ request.redirect_uri = EmptyStr,
                        ~ReqSupported,
                        ReqOpenid /\ ReqImplicit /\ request.nonce = EmptyStr,
                        ReqOpenid /\ request.response_type \notin ReqRegisteredTypes,
                        ~ReqUriTrusted >>
            kinds == << <<"ClientIdError", "">>,
                        <<"RedirectUriError", "">>,
                        <<"AuthorizeError", "unsupported_response_type">>,
                        <<"AuthorizeError", "invalid_request">>,
                        <<"AuthorizeError", "invalid_request">>,
                        <<"RedirectUriError", "">> >>
            failing == {i \in 1..6 : fails[i]}
        IN IF failing = {} THEN raised = Returned /\ pc # "rejected"
           ELSE /\ pc = "rejected"
                /\ \E i \in failing :
                      /\ \A j \in failing : i <= j
                      /\ ErrKind(raised) = kinds[i]

\* C2 witness: the nonce check fails first although the response_type check and
\* the redirect-URI check would fail too
C2_Witness ==
    /\ pc = "rejected"
    /\ ErrKind(raised) = <<"AuthorizeError", "invalid_request">>
    /\ ReqOpenid /\ ReqImplicit /\ request.nonce = EmptyStr
    /\ request.response_type \notin ReqRegisteredTypes
    /\ ~ReqUriTrusted

\* C3 (as claimed): the redirect-URI check accepts a redirect_uri iff, with only
\* its query component removed, it is exactly one of the client's registered URIs.
C3_ExactMatchAfterStrippingQuery ==
    (Validated /\ ReqReachesUriCheck) => (raised = Returned <=> ReqUriExact)

\* C3 (amended): the redirect-URI check accepts a redirect_uri iff the URI with its
\* query removed, its scheme lowercased and an empty "#" delimiter dropped is one
\* of the client's registered URIs; it raises RedirectUriError otherwise.
C3_MatchAfterRebuildWithoutQuery ==
    (Validated /\ ReqReachesUriCheck) =>
        /\ raised = Returned <=> ReqUriTrusted
        /\ raised # Returned => raised = RedirectUriError

\* C3 witness: a URI that differs from a registered one by an added query and an
\* empty "#" has been accepted
C3_Witness ==
    /\ pc = "validated"
    /\ request.redirect_uri = uri_a_c \o <<"?", "k", "=", "v", "#">>

\* C4: the response_type check applies exactly when is_authentication: an
\* authentication request whose response_type differs from the registered one never
\* passes (invalid_request once the earlier checks pass); a non-authentication
\* request with a supported, different response_type passes when its redirect URI
\* matches.
C4_ResponseTypeCheckOnlyForAuthentication ==
    (Validated /\ ReqClientKnown /\ request.response_type \notin ReqRegisteredTypes) =>
        /\ ReqOpenid => raised # Returned
        /\ (ReqOpenid /\ request.redirect_uri # EmptyStr /\ ReqSupported
             /\ ~(ReqImplicit /\ request.nonce = EmptyStr))
            => ErrKind(raised) = <<"AuthorizeError", "invalid_request">>
        /\ (~ReqOpenid /\ ReqSupported /\ ReqUriTrusted) => raised = Returned

\* C4 witness: a non-authentication request for a flow the client is not
\* registered for has passed validation
C4_Witness ==
    /\ pc = "validated"
    /\ ~ReqOpenid
    /\ request.response_type \notin ReqRegisteredTypes

\* C5: a validated implicit request with openid in scope has a nonce; without
\* openid, or for response_type code, the outcome is the same as with a nonce
\* present (an empty nonce never causes a rejection).
C5_NonceRequiredOnlyForImplicitAuthentication ==
    Validated =>
        /\ (raised = Returned /\ ReqImplicit /\ ReqOpenid) => request.nonce # EmptyStr
        /\ (~ReqOpenid \/ request.response_type = "code") =>
              raised = validate_params_raises([params EXCEPT !.nonce = SomeNonce],
                                              grant_type, is_authentication)

\* C5 witness: an implicit request without openid and without nonce has passed
C5_Witness ==
    /\ pc = "validated"
    /\ ReqImplicit /\ ~ReqOpenid
    /\ request.nonce = EmptyStr

\* C6: the flow is a function of response_type alone: code gives
\* authorization_code, id_token / id_token token / token give implicit, anything
\* else (the empty string too) gives none.
C6_FlowClassification ==
    pc # "request" =>
        /\ request.response_type = "code" => grant_type = "authorization_code"
        /\ request.response_type \in {"id_token", "id_token token", "token"}
              => grant_type = "implicit"
        /\ request.response_type \notin {"code", "id_token", "id_token token", "token"}
              => grant_type = "None"

\* C6 witness: an empty response_type has been classified as unsupported for an
\* authentication request
C6_Witness ==
    /\ pc = "init"
    /\ request.response_type = ""
    /\ ReqOpenid
    /\ grant_type = "None"

\* C7 (as claimed): for response_type "token" the fragment of the response holds
\* access_token, token_type, expires_in and state and no id_token, also when scope
\* has openid.
C7_TokenResponseHasNoIdToken ==
    (Responded /\ request.response_type = "token") =>
        /\ {K_access_token, K_token_type, K_expires_in, K_state}
              \subseteq Names(FragmentOf(response.uri))
        /\ K_id_token \notin Names(FragmentOf(response.uri))

\* C7 (amended): for response_type "token" the fragment of the response holds
\* access_token, token_type, expires_in and state, and it holds id_token exactly
\* when scope has openid.
C7_TokenResponseIdTokenIffAuthentication ==
    (Responded /\ request.response_type = "token") =>
        /\ {K_access_token, K_token_type, K_expires_in, K_state}
              \subseteq Names(FragmentOf(response.uri))
        /\ K_id_token \in Names(FragmentOf(response.uri)) <=> ReqOpenid

\* C7 witness: a response to response_type "token" with openid in scope carries an
\* id_token beside the access_token
C7_Witness ==
    /\ Responded
    /\ request.response_type = "token"
    /\ ReqOpenid
    /\ {K_id_token, K_access_token} \subseteq Names(FragmentOf(response.uri))

\* C8: without openid in scope an implicit mint produces no ID Token, whatever the
\* response type: nothing is signed and the fragment holds no id_token.
C8_NoIdTokenWithoutAuthentication ==
    (pc = "responded" /\ ReqImplicit /\ ~ReqOpenid) =>
        /\ signed = <<>>
        /\ Responded => K_id_token \notin Names(FragmentOf(response.uri))

\* C9: a successful create_response_uri creates exactly one code and writes code
\* and state to the query, leaving the fragment of the redirect_uri as it was, or
\* creates exactly one token and writes the result keys to the fragment, leaving
\* the query as it was; never a code and a token.
C9_OneOutcomeInItsComponent ==
    Responded =>
        /\ request.response_type = "code" =>
              /\ Len(codes) = 1 /\ Len(tokens) = 0
              /\ {K_code, K_state} \subseteq Names(QueryOf(response.uri))
              /\ FragmentOf(response.uri) = FragmentOf(request.redirect_uri)
        /\ ReqImplicit =>
              /\ Len(tokens) = 1 /\ Len(codes) = 0
              /\ {K_token_type, K_expires_in, K_state}
                    \subseteq Names(FragmentOf(response.uri))
              /\ Names(FragmentOf(response.uri)) \ Names(FragmentOf(request.redirect_uri))
                    \subseteq ResultKeys
              /\ QueryOf(response.uri) = QueryOf(request.redirect_uri)

\* C10: expires_in of an implicit response is the configured token lifetime, the
\* one added to the creation time to give the stored token's expires_at.
C10_ExpiresInIsConfiguredLifetime ==
    (Responded /\ ReqImplicit) =>
        /\ Values(FragmentOf(response.uri), K_expires_in)
              = {IntToStr(settings.OIDC_TOKEN_EXPIRE)}
        /\ tokens[Len(tokens)].expires_at = now + settings.OIDC_TOKEN_EXPIRE

\* C11: an implicit response holds access_token in its fragment iff response_type
\* is "id_token token" or "token", and then its value is that of the one token
\* stored; for "id_token" a token is stored all the same and the fragment holds no
\* access_token.
C11_AccessTokenIffResponseTypeAsksForIt ==
    (Responded /\ ReqImplicit) =>
        /\ Len(tokens) = 1
        /\ K_access_token \in Names(FragmentOf(response.uri))
              <=> request.response_type \in {"id_token token", "token"}
        /\ Values(FragmentOf(response.uri), K_access_token)
              \subseteq {tokens[1].access_token}

\* C11 witness: a response to response_type "id_token" without access_token, the
\* token being stored
C11_Witness ==
    /\ Responded
    /\ request.response_type = "id_token"
    /\ Len(tokens) = 1 /\ tokens[1].access_token \in Uuids
    /\ K_access_token \notin Names(FragmentOf(response.uri))
    /\ K_id_token \in Names(FragmentOf(response.uri))

\* the fault of the run is met by the mint: a save is made for either grant, the
\* signer is called for an implicit request with openid or for "id_token token"
FaultHits ==
    \/ mint_fault = "save"
    \/ /\ mint_fault \in {"sign", "nokey"}
       /\ ReqImplicit
       /\ ReqOpenid \/ request.response_type = "id_token token"

\* C15: a failure while minting (save of a code or token, the signer, a missing
\* key) ends create_response_uri with AuthorizeError server_error carrying the
\* redirect_uri of the request and the grant kind, and no URI is returned; nothing
\* but a URI or that error comes out of create_response_uri.
C15_MintFailureIsServerError ==
    pc = "responded" =>
        IF FaultHits
        THEN response = AuthorizeError(request.redirect_uri, "server_error",
                            IF request.response_type = "code"
                            THEN "authorization_code" ELSE "implicit")
        ELSE "uri" \in DOMAIN response

\* C15 witness: with no signing key, "id_token token" without openid has ended in
\* server_error carrying the redirect_uri with its query
C15_Witness ==
    /\ pc = "responded"
    /\ mint_fault = "nokey"
    /\ request.response_type = "id_token token" /\ ~ReqOpenid
    /\ response = AuthorizeError(uri_a_c \o <<"?", "k", "=", "v">>, "server_error",
                                 "implicit")

\* the at_hash claim of a compact ID Token of the model: its last segment
AtHashClaim(jwt) == LET segs == Split(jwt, ".") IN segs[Len(segs)]

\* C16: the at_hash of every stored token is the digest of that token's
\* access_token, which is the access_token returned; for "id_token token" the
\* at_hash claim of the ID Token in the fragment is the digest of the access_token
\* in the same fragment.
C16_AtHashIsDigestOfReturnedAccessToken ==
    /\ \A i \in 1..Len(tokens) : tokens[i].at_hash = at_hash_of(tokens[i].access_token)
    /\ (Responded /\ request.response_type \in {"id_token token", "token"}) =>
          Values(FragmentOf(response.uri), K_access_token) = {tokens[1].access_token}
    /\ (Responded /\ request.response_type = "id_token token") =>
          /\ Values(FragmentOf(response.uri), K_id_token) # {}
          /\ \A jwt \in Values(FragmentOf(response.uri), K_id_token) :
             \A at \in Values(FragmentOf(response.uri), K_access_token) :
                 AtHashClaim(jwt) = at_hash_of(at)

\* C16 witness: an "id_token token" response whose token has different access and
\* refresh values
C16_Witness ==
    /\ Responded
    /\ request.response_type = "id_token token" /\ ReqOpenid
    /\ tokens[1].access_token # tokens[1].refresh_token
    /\ Values(FragmentOf(response.uri), K_access_token) = {tokens[1].access_token}

\* C17: one implicit mint calls the signer at most once, and what it signs is the
\* claim set of the ID Token it returns.
C17_SignerRunsOnceOnReturnedClaims ==
    (pc = "responded" /\ ReqImplicit) =>
        /\ Len(signed) <= 1
        /\ Responded =>
              \A i \in 1..Len(signed) :
                  encode_id_token(signed[i]) \in Values(FragmentOf(response.uri), K_id_token)

\* the list of values a name has in a query or fragment text, in order
RECURSIVE ValueList(_, _)
ValueList(pieces, name) ==
    IF pieces = <<>> THEN <<>>
    ELSE (IF pieces[1] # EmptyStr /\ NameOf(pieces[1]) = name
          THEN <<SubSeq(pieces[1], Len(name) + 2, Len(pieces[1]))>> ELSE <<>>)
         \o ValueList(Tail(pieces), name)

\* a URI up to its query, the letters of the scheme in lower case
BaseOf(uri) ==
    LET d == Find(uri, {"?", "#"})
        b == IF d = 0 THEN uri ELSE SubSeq(uri, 1, d-1)
        c == Find(b, {":"})
    IN [j \in 1..Len(b) |-> IF j < c THEN Lower(b[j]) ELSE b[j]]

\* C18: every name of the query and of the fragment of the request's redirect_uri
\* that the flow does not write has the same list of values in the URI returned;
\* scheme, host and path are those of the redirect_uri.
C18_ExistingPairsPreserved ==
    Responded =>
        /\ BaseOf(response.uri) = BaseOf(request.redirect_uri)
        /\ \A name \in Names(QueryOf(request.redirect_uri)) \ {K_code, K_state} :
              ValueList(Split(QueryOf(response.uri), "&"), name)
                  = ValueList(Split(QueryOf(request.redirect_uri), "&"), name)
        /\ \A name \in Names(FragmentOf(request.redirect_uri)) \ ResultKeys :
              ValueList(Split(FragmentOf(response.uri), "&"), name)
                  = ValueList(Split(FragmentOf(request.redirect_uri), "&"), name)

\* C19: when create_response_uri ends in server_error, no code and no token of
\* that call is in the store.
C19_ServerErrorLeavesNothingStored ==
    (pc = "responded" /\ ~Responded) => (codes = <<>> /\ tokens = <<>>)

\* the words of a scope list
ScopeSet(scope) == {scope[i] : i \in 1..Len(scope)}

\* the UserConsent rows of the user and the client of the request
ReqConsentRows ==
    {i \in 1..Len(consents) :
        consents[i].user = TheUser /\ consents[i].client = request.client_id}

\* a row of the pair covers the requested scope and expires strictly after now
ReqConsentCovered ==
    \E i \in ReqConsentRows :
        /\ ScopeSet(request.scope) \subseteq ScopeSet(consents[i].scope)
        /\ consents[i].expires_at > now

\* the expiry a grant made now gives
ReqConsentExpiry == now + settings.OIDC_SKIP_CONSENT_EXPIRE * SecondsPerDay

\* C12: client_has_user_consent returns true iff a row exists for (user, client)
\* whose scope includes the requested scope and whose expiry is strictly in the
\* future; otherwise it returns false; it does not raise and it leaves the consent
\* store as it was.
C12_HasConsentIffCoveringUnexpiredRecord ==
    /\ [](/\ has_consent \in {"None", "True", "False"}
          /\ pc = "checked" => (has_consent = "True" <=> ReqConsentCovered))
    /\ [][pc' = "checked" => consents' = consents]_vars

\* C12 witness: the check has returned false for a row that covers the scope and
\* expires at this very moment
C12_Witness ==
    /\ pc = "checked"
    /\ has_consent = "False"
    /\ \E i \in ReqConsentRows :
          /\ request.scope # <<>>
          /\ ScopeSet(request.scope) \subseteq ScopeSet(consents[i].scope)
          /\ consents[i].expires_at = now

\* C13: after set_client_user_consent the pair has one row, whose scope is the
\* scope of this call and whose expiry is the time of this call plus the consent
\* lifetime, whether the row was created or existed; a word of the scope stored
\* before that this call does not grant no longer has consent.
C13_LastGrantOverwritesScopeAndExpiry ==
    /\ [](pc = "granted" =>
            /\ Cardinality(ReqConsentRows) = 1
            /\ \A i \in ReqConsentRows :
                  /\ consents[i].scope = request.scope
                  /\ consents[i].expires_at = ReqConsentExpiry)
    /\ [][pc' = "granted" =>
            \A i \in ReqConsentRows :
                \A w \in ScopeSet(consents[i].scope) \ ScopeSet(request.scope) :
                    client_has_user_consent_call(consents', TheUser, client, <<w>>, now)
                        = "False"]_vars

\* C13 witness: a later grant of a smaller scope, a day or more after the start,
\* has rewritten the row that existed
C13_Witness ==
    /\ pc = "granted"
    /\ created = "False"
    /\ now > 0
    /\ request.scope = <<"openid">>
    /\ \A i \in ReqConsentRows : consents[i].expires_at = ReqConsentExpiry

\* the UserConsent rows of the pair the two workers grant for
WorkerRows == ConsentPks(consents, TheUser, client)

BothDone == \A w \in Workers : workers[w].pc = "done"

\* C14: under every interleaving of the two workers' get_or_create and save steps
\* the store holds at most one UserConsent row for the pair, and no worker fails.
C14_ConcurrentGrantsLeaveOneRecord ==
    /\ Cardinality(WorkerRows) <= 1
    /\ \A w \in Workers : workers[w].pc # "raised"

\* C14 witness: both workers have finished on a store that was empty; one created
\* the row, the other found it
C14_Witness ==
    /\ BothDone
    /\ Len(consents) = 1
    /\ workers[1].created /\ ~workers[2].created

\* C20: once both workers have finished, the row holds the scope and the expiry of
\* the worker whose save ran last.
C20_RecordIsTheLastSaversGrant ==
    BothDone =>
        /\ saved_by \in Workers
        /\ \A i \in WorkerRows :
              /\ consents[i].scope = workers[saved_by].scope
              /\ consents[i].expires_at = workers[saved_by].expires_at

\* C20 witness: the workers granted different scopes on different days, the one
\* that read the clock first saved last, and the row is its grant
C20_Witness ==
    /\ BothDone
    /\ workers[1].scope # workers[2].scope
    /\ workers[1].expires_at < workers[2].expires_at
    /\ saved_by = 1
    /\ \E i \in WorkerRows : consents[i].expires_at = workers[1].expires_at

====
